---- MODULE Spec2Model ----
(***************************************************************************)
(* The condominium backend's request handlers (core/views.py) as a state   *)
(* machine over the database tables they read and write.  One action per   *)
(* handler; `request' and `response' hold the request just handled and the *)
(* answer it got.                                                          *)
(***************************************************************************)
EXTENDS Integers, Sequences, FiniteSets, TLC

VARIABLES
    fees,        \* Fee table: rows [id, unit, etype, period, amount, status]
    payments,    \* Payment table: rows [id, fee, amount]
    units,       \* Unit table: rows [code, owner]
    maintenance_requests, \* MaintenanceRequest table: rows [id, reported_by, status]
    comments,    \* MaintenanceRequestComment table: rows [id, request, user]
    attachments, \* MaintenanceRequestAttachment table: rows [id, request]
    reservations, \* Reservation table: rows [id, user]
    notifications, \* Notification table: rows [id, user, is_read]
    activity_log, \* ActivityLog table, oldest first: rows [user, action]
    tokens,      \* the users RefreshToken.for_user issued a token pair to, oldest first
    request,     \* the HTTP request handled by the last step
    response,    \* the HTTP response of the last step
    users,       \* User table: the usernames
    expense_types, \* ExpenseType table: the names
    run          \* the populate_db run under way: its position and locals

vars == <<fees, payments, units, maintenance_requests, comments, attachments,
          reservations, notifications, activity_log, tokens, request, response,
          users, expense_types, run>>

\* The tables of the billing handlers, of the resident-owned records and of
\* the authentication handlers.
billing == <<fees, payments, units>>
owned == <<maintenance_requests, comments, attachments, reservations, notifications>>
auth == <<activity_log, tokens>>
seeded == <<users, expense_types, run>>

(***************************************************************************)
(* Bounds of the model.                                                    *)
(***************************************************************************)
MaxReportFees == 2        \* Fee rows in the tables the report is run on
MaxFees == 2              \* Fee rows the fee handlers create
MaxPayments == 1          \* Payment rows register_payment creates
MaxLog == 2               \* ActivityLog rows

(***************************************************************************)
(* The data the tables range over.                                         *)
(***************************************************************************)
Anonymous == "anon"
Users == {"admin", "staff", "r1", "r2"}
Callers == Users \cup {Anonymous}

\* Profile.role of each user, and User.is_staff (populate_db seeds an admin
\* with role ADMIN and a staff user with role STAFF, both is_staff; residents
\* have role RESIDENT).
Role(u) ==
    CASE u = "admin" -> "ADMIN"
      [] u = "staff" -> "STAFF"
      [] u \in {"r1", "r2"} -> "RESIDENT"
      [] OTHER -> "NONE"

is_staff(u) == u \in {"admin", "staff"}

is_authenticated(u) == u \in Users

UnitCodes == {"U1", "U2"}
ExpenseTypeNames == {"Cuota de Mantenimiento", "Fondo de Reserva"}
\* Fee.period is a string "YYYY-MM"; strings of that shape compare as their
\* months do, so a period is modelled by its month's ordinal.
Periods == {1, 2}
Amounts == {1, 2}
FeeStatuses == {"ISSUED", "PAID", "OVERDUE"}

InitialUnits == {[code |-> "U1", owner |-> "r1"], [code |-> "U2", owner |-> "r2"]}

\* unit__owner of a fee: the owner of the Unit row its foreign key names.
UnitOwner(tbl, code) ==
    IF \E u \in tbl : u.code = code
    THEN (CHOOSE u \in tbl : u.code = code).owner
    ELSE "nobody"

(***************************************************************************)
(* Query parameters.  request.query_params.get(k) is None when the key is  *)
(* absent and a string otherwise; `if value:' is false for None and "".    *)
(***************************************************************************)
ParamAbsent(dflt) == [kind |-> "absent", v |-> dflt]
ParamEmpty(dflt) == [kind |-> "empty", v |-> dflt]
ParamValue(x) == [kind |-> "value", v |-> x]
Truthy(p) == p.kind = "value"

PeriodParams == {ParamAbsent(0), ParamEmpty(0)} \cup {ParamValue(p) : p \in Periods}
OwnerParams == {ParamAbsent(""), ParamEmpty("")} \cup {ParamValue(u) : u \in {"r1", "r2"}}

(***************************************************************************)
(* FinanceReportView.get                                                   *)
(***************************************************************************)
\* SQL NULL, which SUM yields over no rows.
Null == [null |-> TRUE, v |-> 0]
NotNull(x) == [null |-> FALSE, v |-> x]

RECURSIVE SumRows(_)
SumRows(rows) ==
    IF rows = {} THEN 0
    ELSE LET r == CHOOSE x \in rows : TRUE
         IN r.amount + SumRows(rows \ {r})

\* Sum('amount')
Sum(rows) == IF rows = {} THEN Null ELSE NotNull(SumRows(rows))

\* Coalesce(expr, Value(0))
Coalesce(x, dflt) == IF x.null THEN dflt ELSE x.v

QPaid_mut(f) == f.status # "ISSUED"
\* Q(status='PAID')
QPaid(f) == f.status = "PAID"

\* Sum('amount', filter=Q(status='PAID'))
SumPaid(rows) == Sum({f \in rows : QPaid(f)})

\* float(Decimal) as the JSON body carries it.  A double holds 15 significant
\* decimal digits, so every decimal of at most 15 digits is written to the
\* body and read back as itself; the amounts of the model (and every 32-bit
\* integer) are far inside that range, where the conversion changes nothing.
Float(d) == d

ReportQueryset_mut(tbl, unitTbl, from, to, owner) ==
    LET q1 == IF Truthy(from) THEN {f \in tbl : f.period >= from.v} ELSE tbl
        q2 == IF Truthy(to) THEN {f \in q1 : f.period < to.v} ELSE q1
    IN IF Truthy(owner) THEN {f \in q2 : UnitOwner(unitTbl, f.unit) = owner.v} ELSE q2
\* the three optional filters of lines 285-292
ReportQueryset(tbl, unitTbl, from, to, owner) ==
    LET q1 == IF Truthy(from) THEN {f \in tbl : f.period >= from.v} ELSE tbl
        q2 == IF Truthy(to) THEN {f \in q1 : f.period <= to.v} ELSE q1
    IN IF Truthy(owner) THEN {f \in q2 : UnitOwner(unitTbl, f.unit) = owner.v} ELSE q2

\* queryset.aggregate(issued=..., paid=...) and the overall block of the body
Overall(qs) ==
    LET overall_issued == Coalesce(Sum(qs), 0)
        overall_paid == Coalesce(SumPaid(qs), 0)
        overall_outstanding == overall_issued - overall_paid
    IN [issued |-> Float(overall_issued),
        paid |-> Float(overall_paid),
        outstanding |-> Float(overall_outstanding)]

TypeOutstanding_mut(issued, paid) == issued
\* .annotate(outstanding=F('issued') - F('paid'))
TypeOutstanding(issued, paid) == issued - paid

\* one by_type row: values('expense_type__name').annotate(...)
TypeEntry(qs, name) ==
    LET grp == {f \in qs : f.etype = name}
        issued == Coalesce(Sum(grp), 0)
        paid == Coalesce(SumPaid(grp), 0)
    IN [type |-> name, count |-> Cardinality(grp),
        issued |-> Float(issued), paid |-> Float(paid),
        outstanding |-> Float(TypeOutstanding(issued, paid))]

PeriodEntry_mut(qs, p) ==
    LET grp == {f \in qs : f.period <= p}
    IN [period |-> p,
        issued |-> Float(Coalesce(Sum(grp), 0)),
        paid |-> Float(Coalesce(SumPaid(grp), 0))]
\* one by_period row: values('period').annotate(...).values('period', 'issued', 'paid')
PeriodEntry(qs, p) ==
    LET grp == {f \in qs : f.period = p}
    IN [period |-> p,
        issued |-> Float(Coalesce(Sum(grp), 0)),
        paid |-> Float(Coalesce(SumPaid(grp), 0))]

\* The sequences over `entries', each once.
Orderings(entries) ==
    {s \in [1..Cardinality(entries) -> entries] :
        \A i, j \in DOMAIN s : i # j => s[i] # s[j]}

\* .order_by('-issued'): rows of equal issued come in an order the database picks
ByTypeOrders(qs) ==
    LET entries == {TypeEntry(qs, n) : n \in {f.etype : f \in qs}}
    IN {s \in Orderings(entries) :
            \A i, j \in DOMAIN s : i < j => s[i].issued >= s[j].issued}

\* .order_by('period')
ByPeriod(qs) ==
    LET entries == {PeriodEntry(qs, p) : p \in {f.period : f \in qs}}
    IN CHOOSE s \in Orderings(entries) :
            \A i, j \in DOMAIN s : i < j => s[i].period < s[j].period

\* No populate_db run is under way.
NoRun == [pc |-> "idle", outcome |-> "none", clean |-> FALSE]

\* The worker is free: no request is being answered.
NoRequest == [op |-> "none", user |-> Anonymous]
NoResponse == [status |-> 0]
Idle == response = NoResponse

\* The response has been sent and the worker takes the next request (one
\* request per worker at a time; the tables are all that outlives a request).
Complete ==
    /\ ~Idle
    /\ request' = NoRequest
    /\ response' = NoResponse
    /\ UNCHANGED <<billing, owned, auth, seeded>>

FinanceReportGet(u, from, to, owner) ==
    /\ request' = [op |-> "finance_report", user |-> u,
                   from |-> from, to |-> to, owner |-> owner]
    /\ IF ~is_authenticated(u)
       THEN response' = [status |-> 401]
       ELSE LET qs == ReportQueryset(fees, units, from, to, owner)
            IN \E by_type \in ByTypeOrders(qs) :
                  response' = [status |-> 200,
                               overall |-> Overall(qs),
                               by_type |-> by_type,
                               by_period |-> ByPeriod(qs)]
    /\ UNCHANGED <<billing, owned, auth, seeded>>

(***************************************************************************)
(* The report on every small Fee table.  The report reads no id but to     *)
(* count rows, so the tables are taken up to a renumbering of their rows:  *)
(* ids 1..n, the rows in a fixed order of their data.                      *)
(***************************************************************************)
FeeRow(i, unit, etype, period, amount, status) ==
    [id |-> i, unit |-> unit, etype |-> etype, period |-> period,
     amount |-> amount, status |-> status]

FeeData == [unit : UnitCodes, etype : ExpenseTypeNames, period : Periods,
            amount : Amounts, status : FeeStatuses]

Rank(d) ==
    LET ui == IF d.unit = "U1" THEN 0 ELSE 1
        ti == IF d.etype = "Fondo de Reserva" THEN 0 ELSE 1
        si == CASE d.status = "ISSUED" -> 0 [] d.status = "PAID" -> 1 [] OTHER -> 2
    IN (((ui * 2 + ti) * 4 + d.period) * 8 + d.amount) * 3 + si

ReportTables ==
    UNION {{t \in [1..n -> FeeData] : \A i \in 1..n : i > 1 => Rank(t[i - 1]) <= Rank(t[i])}
             : n \in 0..MaxReportFees}

InitReport ==
    /\ \E t \in ReportTables :
            fees = {FeeRow(i, t[i].unit, t[i].etype, t[i].period,
                           t[i].amount, t[i].status) : i \in DOMAIN t}
    /\ payments = {}
    /\ units = InitialUnits
    /\ maintenance_requests = {}
    /\ comments = {}
    /\ attachments = {}
    /\ reservations = {}
    /\ notifications = {}
    /\ activity_log = <<>>
    /\ tokens = <<>>
    /\ users = Users
    /\ expense_types = ExpenseTypeNames
    /\ run = NoRun
    /\ request = NoRequest
    /\ response = NoResponse

NextReport ==
    \/ /\ Idle
       /\ \E from \in PeriodParams, to \in PeriodParams \ {ParamEmpty(0)},
             owner \in OwnerParams \ {ParamEmpty("")} :
            FinanceReportGet("r1", from, to, owner)
    \/ /\ Idle
       /\ FinanceReportGet(Anonymous, ParamAbsent(0), ParamAbsent(0), ParamAbsent(""))

SpecReport == InitReport /\ [][NextReport]_vars

(***************************************************************************)
(* C1..C2: the finance report's sums.                                      *)
(***************************************************************************)
IsReport == request.op = "finance_report" /\ response.status = 200

\* The fees a report's filters select, stated directly.
Matches(f) ==
    /\ request.from.kind = "value" => f.period >= request.from.v
    /\ request.to.kind = "value" => f.period <= request.to.v
    /\ request.owner.kind = "value" => UnitOwner(units, f.unit) = request.owner.v

\* The sum of the amounts of the rows of `tbl' satisfying P, row by row over the ids.
RECURSIVE TotalUpTo(_, _, _)
TotalUpTo(tbl, P(_), n) ==
    IF n = 0 THEN 0
    ELSE TotalUpTo(tbl, P, n - 1)
         + (IF \E f \in tbl : f.id = n /\ P(f)
            THEN (CHOOSE f \in tbl : f.id = n).amount ELSE 0)

MaxId(tbl) == IF tbl = {} THEN 0 ELSE CHOOSE n \in {f.id : f \in tbl} : \A f \in tbl : f.id <= n

Total(tbl, P(_)) == TotalUpTo(tbl, P, MaxId(tbl))

MatchesPaid(f) == Matches(f) /\ f.status = "PAID"

\* C1: the report's overall block is the sum of the matching fees' amounts
\* (issued), the sum over the matching PAID fees (paid) and their difference
\* (outstanding); all three are 0 when no fee matches.
C1_OverallSums ==
    IsReport =>
        /\ response.overall.issued = Total(fees, Matches)
        /\ response.overall.paid = Total(fees, MatchesPaid)
        /\ response.overall.outstanding = response.overall.issued - response.overall.paid
        /\ (~ \E f \in fees : Matches(f)) =>
              response.overall = [issued |-> 0, paid |-> 0, outstanding |-> 0]

C1_Witness ==
    /\ IsReport
    /\ request.from.kind = "value" /\ request.to.kind = "value"
    /\ request.owner.kind = "value"
    /\ \E f \in fees : ~Matches(f)
    /\ response.overall.paid > 0

\* a report of both a paid and an unpaid fee
C1_WitnessOutstanding ==
    /\ IsReport
    /\ response.overall.paid > 0
    /\ response.overall.outstanding > 0

SeqRange(s) == {s[i] : i \in DOMAIN s}

\* C2 as stated: every entry of by_type and of by_period carries an
\* outstanding value equal to its group's issued sum minus its paid sum.
C2_Original ==
    IsReport =>
        \A e \in SeqRange(response.by_type) \cup SeqRange(response.by_period) :
            /\ "outstanding" \in DOMAIN e
            /\ e.outstanding = e.issued - e.paid

\* C2 (amended): by_type holds one entry per expense type name among the
\* matching fees, each with outstanding equal to the group's issued sum minus
\* its paid sum; by_period holds one entry per period among the matching
\* fees, each carrying the group's issued and paid sums and no outstanding.
C2_GroupOutstanding ==
    IsReport =>
        /\ Len(response.by_type) = Cardinality({f.etype : f \in {g \in fees : Matches(g)}})
        /\ \A e \in SeqRange(response.by_type) :
              /\ \E f \in fees : Matches(f) /\ f.etype = e.type
              /\ e.issued = Total(fees, LAMBDA f : Matches(f) /\ f.etype = e.type)
              /\ e.paid = Total(fees, LAMBDA f : MatchesPaid(f) /\ f.etype = e.type)
              /\ e.outstanding = e.issued - e.paid
        /\ Len(response.by_period) = Cardinality({f.period : f \in {g \in fees : Matches(g)}})
        /\ \A e \in SeqRange(response.by_period) :
              /\ DOMAIN e = {"period", "issued", "paid"}
              /\ \E f \in fees : Matches(f) /\ f.period = e.period
              /\ e.issued = Total(fees, LAMBDA f : Matches(f) /\ f.period = e.period)
              /\ e.paid = Total(fees, LAMBDA f : MatchesPaid(f) /\ f.period = e.period)

C2_Witness ==
    /\ IsReport
    /\ Len(response.by_type) = 2
    /\ Len(response.by_period) = 2
    /\ \E e \in SeqRange(response.by_type) : e.paid > 0 /\ e.outstanding = 0
    /\ \E e \in SeqRange(response.by_type) : e.outstanding > 0

(***************************************************************************)
(* Permissions.  core/permissions.py: IsAdmin grants a request whose user  *)
(* has the profile role ADMIN.  A refused request is answered 401 when it  *)
(* carries no credentials and 403 otherwise.                               *)
(***************************************************************************)
IsAdmin(u) == is_authenticated(u) /\ Role(u) = "ADMIN"

Refused(u) == [status |-> IF is_authenticated(u) THEN 403 ELSE 401]

(***************************************************************************)
(* FeeViewSet                                                              *)
(***************************************************************************)
FeeGetPermissions_mut(action, u) ==
    IF action \in {"list", "retrieve", "pay"} THEN is_authenticated(u) ELSE IsAdmin(u)
\* get_permissions: IsAuthenticated for list and retrieve, IsAdmin for the rest
FeeGetPermissions(action, u) ==
    IF action \in {"list", "retrieve"} THEN is_authenticated(u) ELSE IsAdmin(u)

\* get_queryset: ?mine=1 and ?period= narrow the rows
FeeGetQueryset(u, mine, period) ==
    LET q1 == IF mine /\ is_authenticated(u)
              THEN {f \in fees : UnitOwner(units, f.unit) = u} ELSE fees
    IN IF Truthy(period) THEN {f \in q1 : f.period = period.v} ELSE q1

HasPk(tbl, pk) == \E r \in tbl : r.id = pk
ByPk(tbl, pk) == CHOOSE r \in tbl : r.id = pk

\* The primary key a new row gets.  The database numbers rows upwards; the
\* handlers read a key only to find its row, so any unused key stands for it.
NewId(tbl, max) == CHOOSE i \in 1..max : ~HasPk(tbl, i) /\ \A j \in 1..(i - 1) : HasPk(tbl, j)

FeeFields == {"unit", "etype", "period", "amount", "status"}

\* serializer.save() on an instance: the fields the request gives replace the row's
FeeApply(row, data) ==
    [k \in DOMAIN row |-> IF k \in DOMAIN data THEN data[k] ELSE row[k]]

FeeList(u, mine, period) ==
    /\ request' = [op |-> "fee_list", user |-> u, mine |-> mine, period |-> period]
    /\ response' = IF ~FeeGetPermissions("list", u) THEN Refused(u)
                   ELSE [status |-> 200, rows |-> FeeGetQueryset(u, mine, period)]
    /\ UNCHANGED <<billing, owned, auth, seeded>>

FeeRetrieve(u, pk) ==
    /\ request' = [op |-> "fee_retrieve", user |-> u, pk |-> pk]
    /\ response' = IF ~FeeGetPermissions("retrieve", u) THEN Refused(u)
                   ELSE IF ~HasPk(fees, pk) THEN [status |-> 404]
                   ELSE [status |-> 200, row |-> ByPk(fees, pk)]
    /\ UNCHANGED <<billing, owned, auth, seeded>>

\* create: a new Fee row from the request's fields, ISSUED unless the request says otherwise
FeeCreate(u, data) ==
    /\ Cardinality(fees) < MaxFees
    /\ request' = [op |-> "fee_create", user |-> u, data |-> data]
    /\ IF ~FeeGetPermissions("create", u)
       THEN response' = Refused(u) /\ fees' = fees
       ELSE LET row == FeeApply(FeeRow(NewId(fees, MaxFees), "", "", 0, 0, "ISSUED"), data)
            IN /\ fees' = fees \cup {row}
               /\ response' = [status |-> 201, row |-> row]
    /\ UNCHANGED <<payments, units, owned, auth, seeded>>

\* update (PUT, every field) and partial_update (PATCH, the fields given)
FeeUpdate(action, u, pk, data) ==
    /\ request' = [op |-> "fee_" \o action, user |-> u, pk |-> pk, data |-> data]
    /\ IF ~FeeGetPermissions(action, u)
       THEN response' = Refused(u) /\ fees' = fees
       ELSE IF ~HasPk(fees, pk)
       THEN response' = [status |-> 404] /\ fees' = fees
       ELSE LET row == FeeApply(ByPk(fees, pk), data)
            IN /\ fees' = (fees \ {ByPk(fees, pk)}) \cup {row}
               /\ response' = [status |-> 200, row |-> row]
    /\ UNCHANGED <<payments, units, owned, auth, seeded>>

\* destroy; the fee's Payment rows go with it
FeeDestroy(u, pk) ==
    /\ request' = [op |-> "fee_destroy", user |-> u, pk |-> pk]
    /\ IF ~FeeGetPermissions("destroy", u)
       THEN response' = Refused(u) /\ UNCHANGED <<fees, payments>>
       ELSE IF ~HasPk(fees, pk)
       THEN response' = [status |-> 404] /\ UNCHANGED <<fees, payments>>
       ELSE /\ fees' = fees \ {ByPk(fees, pk)}
            /\ payments' = {p \in payments : p.fee # pk}
            /\ response' = [status |-> 204]
    /\ UNCHANGED <<units, owned, auth, seeded>>

(***************************************************************************)
(* FeeViewSet.pay                                                          *)
(***************************************************************************)
\* request.data.get('amount'): None, a string or a number
AmountAbsent == [kind |-> "absent", s |-> "", n |-> 0]
AmountStr(s) == [kind |-> "str", s |-> s, n |-> 0]
AmountNum(n) == [kind |-> "num", s |-> "", n |-> n]

\* `not amount': None, the empty string and the number 0
NotAmount(a) ==
    \/ a.kind = "absent"
    \/ a.kind = "str" /\ a.s = ""
    \/ a.kind = "num" /\ a.n = 0

\* float(amount): a number, or a string that reads as one; ValueError otherwise
PyFloat(a) ==
    CASE a.kind = "num" -> [ok |-> TRUE, v |-> a.n]
      [] a.kind = "str" /\ a.s = "1" -> [ok |-> TRUE, v |-> 1]
      [] a.kind = "str" /\ a.s = "2" -> [ok |-> TRUE, v |-> 2]
      [] OTHER -> [ok |-> FALSE, v |-> 0]

PayOutcome_mut200(found, amount, raises) ==
    IF ~found THEN [status |-> 400, detail |-> "No Fee matches the given query.", call |-> FALSE]
    ELSE IF NotAmount(amount) THEN [status |-> 200, detail |-> "El monto es requerido.", call |-> FALSE]
    ELSE IF ~PyFloat(amount).ok THEN [status |-> 400, detail |-> "could not convert string to float", call |-> FALSE]
    ELSE IF raises THEN [status |-> 400, detail |-> "register_payment error", call |-> FALSE]
    ELSE [status |-> 200, detail |-> "", call |-> TRUE]
PayOutcome_mut404(found, amount, raises) ==
    IF ~found THEN [status |-> 404, detail |-> "No Fee matches the given query.", call |-> FALSE]
    ELSE IF NotAmount(amount) THEN [status |-> 400, detail |-> "El monto es requerido.", call |-> FALSE]
    ELSE IF ~PyFloat(amount).ok THEN [status |-> 400, detail |-> "could not convert string to float", call |-> FALSE]
    ELSE IF raises THEN [status |-> 400, detail |-> "register_payment error", call |-> FALSE]
    ELSE [status |-> 200, detail |-> "", call |-> TRUE]
\* The body of pay: get_object (Http404), the amount check, float(amount),
\* register_payment, and `except Exception' turning each exception into a 400
\* with its text.  `call' says whether register_payment ran to its end.
PayOutcome(found, amount, raises) ==
    IF ~found THEN [status |-> 400, detail |-> "No Fee matches the given query.", call |-> FALSE]
    ELSE IF NotAmount(amount) THEN [status |-> 400, detail |-> "El monto es requerido.", call |-> FALSE]
    ELSE IF ~PyFloat(amount).ok THEN [status |-> 400, detail |-> "could not convert string to float", call |-> FALSE]
    ELSE IF raises THEN [status |-> 400, detail |-> "register_payment error", call |-> FALSE]
    ELSE [status |-> 200, detail |-> "", call |-> TRUE]

\* services.fees.register_payment: records a Payment against the fee and
\* flips the fee's status to PAID, or raises and leaves both tables as they were.
RegisterPaymentFees(fee_id) ==
    (fees \ {ByPk(fees, fee_id)}) \cup {[ByPk(fees, fee_id) EXCEPT !.status = "PAID"]}

RegisterPaymentPayments(fee_id, amount) ==
    payments \cup {[id |-> NewId(payments, MaxPayments), fee |-> fee_id, amount |-> amount]}

FeePay(u, pk, amount, raises) ==
    /\ request' = [op |-> "fee_pay", user |-> u, pk |-> pk, amount |-> amount]
    /\ IF ~FeeGetPermissions("pay", u)
       THEN response' = Refused(u) /\ UNCHANGED <<fees, payments>>
       ELSE LET out == PayOutcome(HasPk(fees, pk), amount, raises)
            IN /\ response' = [status |-> out.status, detail |-> out.detail]
               /\ IF out.call
                  THEN /\ Cardinality(payments) < MaxPayments
                       /\ fees' = RegisterPaymentFees(pk)
                       /\ payments' = RegisterPaymentPayments(pk, PyFloat(amount).v)
                  ELSE UNCHANGED <<fees, payments>>
    /\ UNCHANGED <<units, owned, auth, seeded>>

(***************************************************************************)
(* The payment gateway                                                     *)
(***************************************************************************)
PreferenceLookup_mut(u, fee_id) == {f \in fees : f.id = fee_id}
\* Fee.objects.get(**fee_lookup): the key, and for a caller who is not an
\* ADMIN the unit's owner as well
PreferenceLookup(u, fee_id) ==
    {f \in fees : /\ f.id = fee_id
                  /\ Role(u) # "ADMIN" => UnitOwner(units, f.unit) = u}

FeePaymentPreferencePost(u, fee_id) ==
    /\ request' = [op |-> "payment_preference", user |-> u, fee_id |-> fee_id]
    /\ response' = IF ~is_authenticated(u) THEN Refused(u)
                   ELSE IF PreferenceLookup(u, fee_id) = {}
                   THEN [status |-> 404, detail |-> "Cuota no encontrada."]
                   ELSE [status |-> 200,
                         init_point |-> <<"https://www.mercadopago.com.ar/pagar/con/qr/", fee_id>>,
                         qr_code_base64 |-> "placeholder_qr_base64"]
    /\ UNCHANGED <<billing, owned, auth, seeded>>

MercadoPagoWebhookPost(u) ==
    /\ request' = [op |-> "mercadopago_webhook", user |-> u]
    /\ response' = [status |-> 200]
    /\ UNCHANGED <<billing, owned, auth, seeded>>

(***************************************************************************)
(* The fee handlers, one request after another.                            *)
(***************************************************************************)
InitFee ==
    /\ fees = {}
    /\ payments = {}
    /\ units = InitialUnits
    /\ maintenance_requests = {}
    /\ comments = {}
    /\ attachments = {}
    /\ reservations = {}
    /\ notifications = {}
    /\ activity_log = <<>>
    /\ tokens = <<>>
    /\ users = Users
    /\ expense_types = ExpenseTypeNames
    /\ run = NoRun
    /\ request = NoRequest
    /\ response = NoResponse

Pks == 1..(MaxFees + 1)
AmountInputs == {AmountAbsent, AmountStr(""), AmountStr("abc"), AmountStr("2"),
                 AmountNum(0), AmountNum(2)}
NewFeeInputs == {[unit |-> "U1", etype |-> "Fondo de Reserva", period |-> 1, amount |-> a] :
                    a \in Amounts}

NextFee ==
    \/ Idle /\ \E u \in Callers : FeeList(u, FALSE, ParamAbsent(0))
    \/ Idle /\ FeeList("r1", TRUE, ParamValue(1))
    \/ Idle /\ \E u \in Callers, pk \in Pks : FeeRetrieve(u, pk)
    \/ Idle /\ \E u \in Callers, d \in NewFeeInputs : FeeCreate(u, d)
    \/ Idle /\ \E u \in Callers, pk \in Pks, st \in FeeStatuses :
                  FeeUpdate("partial_update", u, pk, [status |-> st])
    \/ Idle /\ \E u \in Callers, pk \in Pks, d \in NewFeeInputs :
                  FeeUpdate("update", u, pk, [unit |-> d.unit, etype |-> d.etype,
                        period |-> d.period, amount |-> d.amount, status |-> "OVERDUE"])
    \/ Idle /\ \E u \in Callers, pk \in Pks : FeeDestroy(u, pk)
    \/ Idle /\ \E u \in Callers, pk \in Pks, a \in AmountInputs, raises \in BOOLEAN :
                  FeePay(u, pk, a, raises)
    \/ Idle /\ \E u \in Callers, pk \in Pks : FeePaymentPreferencePost(u, pk)
    \/ Idle /\ \E u \in Callers : MercadoPagoWebhookPost(u)
    \/ Complete

SpecFee == InitFee /\ [][NextFee]_vars

(***************************************************************************)
(* C3, C5, C8, C10: the fee handlers.                                      *)
(***************************************************************************)
\* A step in which a handler answers a request.
Handled(op) == Idle /\ request'.op = op /\ response' # NoResponse

FeeWriteOps == {"fee_create", "fee_update", "fee_partial_update", "fee_destroy", "fee_pay"}

\* C3: when pay answers 200 the fee is PAID afterwards, and a finance report
\* (under any filters) taken after the step differs from one taken before it
\* exactly by the fee's amount moving from outstanding to paid, if the fee is
\* among the report's fees and was not PAID before.
C3_PayMarksPaid ==
    [][(Handled("fee_pay") /\ response'.status = 200) =>
        /\ HasPk(fees, request'.pk) /\ HasPk(fees', request'.pk)
        /\ ByPk(fees', request'.pk).status = "PAID"
        /\ \A from \in PeriodParams, to \in PeriodParams, owner \in OwnerParams :
             LET fee == ByPk(fees, request'.pk)
                 before == Overall(ReportQueryset(fees, units, from, to, owner))
                 after == Overall(ReportQueryset(fees', units', from, to, owner))
             IN IF fee \in ReportQueryset(fees, units, from, to, owner) /\ fee.status # "PAID"
                THEN /\ after.issued = before.issued
                     /\ after.paid = before.paid + fee.amount
                     /\ after.outstanding = before.outstanding - fee.amount
                ELSE after = before
    ]_vars

C3_Witness ==
    /\ request.op = "fee_pay" /\ response.status = 200
    /\ ByPk(fees, request.pk).status = "PAID"
    /\ ByPk(fees, request.pk).amount # PyFloat(request.amount).v
    /\ \E p \in payments : p.fee = request.pk
    /\ \E f \in fees : f.status # "PAID"

\* C5: a request of a user who is not an ADMIN leaves the Fee table, and so
\* every fee's status, as it was; create, update, partial_update, destroy and
\* pay are refused (401 or 403) for such a user.
C5_OnlyAdminChangesFees ==
    [][(Idle /\ response' # NoResponse /\ Role(request'.user) # "ADMIN") =>
        /\ fees' = fees
        /\ request'.op \in FeeWriteOps => response'.status \in {401, 403}
    ]_vars

C5_Witness ==
    /\ request.op = "fee_pay" /\ Role(request.user) = "RESIDENT"
    /\ request.amount = AmountNum(2)
    /\ response.status = 403
    /\ HasPk(fees, request.pk) /\ ByPk(fees, request.pk).status = "ISSUED"
    /\ UnitOwner(units, ByPk(fees, request.pk).unit) = request.user

C8_WitnessRaises ==
    /\ request.op = "fee_pay" /\ Role(request.user) = "ADMIN"
    /\ response.status = 400 /\ response.detail = "register_payment error"
    /\ ByPk(fees, request.pk).status = "ISSUED"

\* C10: the gateway endpoints change neither table.  The webhook answers
\* 200.  The preference endpoint answers an authenticated caller 404 when the
\* fee does not exist or the caller is neither an ADMIN nor the owner of the
\* fee's unit, and otherwise 200 with a body fixed by fee_id alone.
C10_GatewayIsAStub ==
    [][(Idle /\ response' # NoResponse
            /\ request'.op \in {"payment_preference", "mercadopago_webhook"}) =>
        /\ fees' = fees /\ payments' = payments
        /\ request'.op = "mercadopago_webhook" => response'.status = 200
        /\ (request'.op = "payment_preference" /\ is_authenticated(request'.user)) =>
              IF \/ ~HasPk(fees, request'.fee_id)
                 \/ /\ Role(request'.user) # "ADMIN"
                    /\ UnitOwner(units, ByPk(fees, request'.fee_id).unit) # request'.user
              THEN response'.status = 404
              ELSE response' = [status |-> 200,
                                init_point |-> <<"https://www.mercadopago.com.ar/pagar/con/qr/",
                                                 request'.fee_id>>,
                                qr_code_base64 |-> "placeholder_qr_base64"]
    ]_vars

C10_Witness ==
    /\ request.op = "payment_preference" /\ request.user = "r1"
    /\ response.status = 200
    /\ ByPk(fees, request.fee_id).status = "PAID"
    /\ payments # {}

C10_WitnessNotOwner ==
    /\ request.op = "payment_preference" /\ request.user = "r2"
    /\ HasPk(fees, request.fee_id)
    /\ response.status = 404

(***************************************************************************)
(* UnitViewSet                                                             *)
(***************************************************************************)
UnitPermission_mut(u) == is_authenticated(u)
\* permission_classes = [IsAdmin], for every action
UnitPermission(u) == IsAdmin(u)

HasCode(code) == \E x \in units : x.code = code
ByCode(code) == CHOOSE x \in units : x.code = code

UnitList(u) ==
    /\ request' = [op |-> "unit_list", user |-> u]
    /\ response' = IF ~UnitPermission(u) THEN Refused(u)
                   ELSE [status |-> 200, rows |-> units]
    /\ UNCHANGED <<billing, owned, auth, seeded>>

UnitRetrieve(u, code) ==
    /\ request' = [op |-> "unit_retrieve", user |-> u, code |-> code]
    /\ response' = IF ~UnitPermission(u) THEN Refused(u)
                   ELSE IF ~HasCode(code) THEN [status |-> 404]
                   ELSE [status |-> 200, row |-> ByCode(code)]
    /\ UNCHANGED <<billing, owned, auth, seeded>>

\* create: a code another Unit has is a validation error (Unit.code is unique)
UnitCreate(u, code, owner) ==
    /\ request' = [op |-> "unit_create", user |-> u, code |-> code, owner |-> owner]
    /\ IF ~UnitPermission(u)
       THEN response' = Refused(u) /\ units' = units
       ELSE IF HasCode(code)
       THEN response' = [status |-> 400] /\ units' = units
       ELSE /\ units' = units \cup {[code |-> code, owner |-> owner]}
            /\ response' = [status |-> 201]
    /\ UNCHANGED <<fees, payments, owned, auth, seeded>>

UnitUpdate(action, u, code, owner) ==
    /\ request' = [op |-> "unit_" \o action, user |-> u, code |-> code, owner |-> owner]
    /\ IF ~UnitPermission(u)
       THEN response' = Refused(u) /\ units' = units
       ELSE IF ~HasCode(code)
       THEN response' = [status |-> 404] /\ units' = units
       ELSE /\ units' = (units \ {ByCode(code)}) \cup {[code |-> code, owner |-> owner]}
            /\ response' = [status |-> 200]
    /\ UNCHANGED <<fees, payments, owned, auth, seeded>>

\* destroy; the unit's fees and their payments go with it
UnitDestroy(u, code) ==
    /\ request' = [op |-> "unit_destroy", user |-> u, code |-> code]
    /\ IF ~UnitPermission(u)
       THEN response' = Refused(u) /\ UNCHANGED billing
       ELSE IF ~HasCode(code)
       THEN response' = [status |-> 404] /\ UNCHANGED billing
       ELSE /\ units' = units \ {ByCode(code)}
            /\ fees' = {f \in fees : f.unit # code}
            /\ payments' = {p \in payments : \E f \in fees : f.id = p.fee /\ f.unit # code}
            /\ response' = [status |-> 204]
    /\ UNCHANGED <<owned, auth, seeded>>

InitUnit ==
    /\ fees = {FeeRow(1, "U1", "Fondo de Reserva", 1, 2, "ISSUED")}
    /\ payments = {}
    /\ units = {[code |-> "U1", owner |-> "r1"]}
    /\ maintenance_requests = {}
    /\ comments = {}
    /\ attachments = {}
    /\ reservations = {}
    /\ notifications = {}
    /\ activity_log = <<>>
    /\ tokens = <<>>
    /\ users = Users
    /\ expense_types = ExpenseTypeNames
    /\ run = NoRun
    /\ request = NoRequest
    /\ response = NoResponse

Owners == {"r1", "r2"}

NextUnit ==
    \/ Idle /\ \E u \in Callers : UnitList(u)
    \/ Idle /\ \E u \in Callers, c \in UnitCodes : UnitRetrieve(u, c)
    \/ Idle /\ \E u \in Callers, c \in UnitCodes, o \in Owners : UnitCreate(u, c, o)
    \/ Idle /\ \E u \in Callers, c \in UnitCodes, o \in Owners,
                  a \in {"update", "partial_update"} : UnitUpdate(a, u, c, o)
    \/ Idle /\ \E u \in Callers, c \in UnitCodes : UnitDestroy(u, c)
    \/ Complete

SpecUnit == InitUnit /\ [][NextUnit]_vars

UnitOps == {"unit_list", "unit_retrieve", "unit_create", "unit_update",
            "unit_partial_update", "unit_destroy"}

\* C4: a request of a user whose role is not ADMIN (a resident, the staff
\* user, an unauthenticated caller) leaves the Unit table as it was, and
\* every UnitViewSet action answers such a user 401 or 403.
C4_NonAdminCannotTouchUnits ==
    [][(Idle /\ response' # NoResponse /\ Role(request'.user) # "ADMIN") =>
        /\ units' = units
        /\ request'.op \in UnitOps => response'.status \in {401, 403}
    ]_vars

C4_Witness ==
    /\ request.op = "unit_create" /\ request.user = "staff"
    /\ ~HasCode(request.code)
    /\ response.status = 403

(***************************************************************************)
(* LoginView, LogoutView, PageAccessLogView                                *)
(***************************************************************************)
\* Strings the handlers take apart are sequences of characters.
RECURSIVE LStrip(_)
LStrip(s) == IF s # <<>> /\ Head(s) = " " THEN LStrip(Tail(s)) ELSE s

RECURSIVE RStrip(_)
RStrip(s) == IF s # <<>> /\ s[Len(s)] = " " THEN RStrip(SubSeq(s, 1, Len(s) - 1)) ELSE s

\* str.strip()
Strip(s) == RStrip(LStrip(s))

Lower(c) == CASE c = "A" -> "a" [] c = "Q" -> "q" [] c = "Z" -> "z" [] OTHER -> c

\* the __iexact lookup
IExact(a, b) == Len(a) = Len(b) /\ \A i \in DOMAIN a : Lower(a[i]) = Lower(b[i])

\* "@" in identifier
HasAt(s) == \E i \in DOMAIN s : s[i] = "@"

\* The User rows: username, email, password, is_active.
Username(u) ==
    CASE u = "admin" -> <<"a">> [] u = "staff" -> <<"s">>
      [] u = "r1" -> <<"r">> [] OTHER -> <<"q">>
Email(u) == Username(u) \o <<"@">>
Password(u) == IF u = "admin" THEN <<"p">> ELSE <<"w">>
is_active(u) == u # "r2"

\* data.get(key): None when the key is absent
StrAbsent == [given |-> FALSE, s |-> <<>>]
StrGiven(s) == [given |-> TRUE, s |-> s]

\* a or b, on values that are None or strings
PyOr(a, b) == IF a.given /\ a.s # <<>> THEN a ELSE b

\* lines 43-44
LoginIdentifier(data) == Strip(PyOr(data.email, PyOr(data.username, StrGiven(<<>>))).s)
LoginPassword(data) == Strip(PyOr(data.password, StrGiven(<<>>)).s)

\* lines 47-48: the users the lookup finds; .first() takes one of them
LoginLookup(identifier) ==
    IF HasAt(identifier)
    THEN {u \in Users : IExact(Email(u), identifier)}
    ELSE {u \in Users : IExact(Username(u), identifier)}

\* django.contrib.auth.authenticate: the user of that username, if the
\* password is the user's and the user is active
Authenticate(username, password) ==
    {u \in Users : Username(u) = username /\ Password(u) = password /\ is_active(u)}

\* lines 45-56, for the user_obj the lookup gave (Anonymous when it gave none)
LoginOutcome(data, user_obj) ==
    IF LoginIdentifier(data) = <<>> \/ LoginPassword(data) = <<>>
    THEN [status |-> 400, user |-> Anonymous]
    ELSE IF user_obj = Anonymous
    THEN [status |-> 401, user |-> Anonymous]
    ELSE IF Authenticate(Username(user_obj), LoginPassword(data)) = {}
    THEN [status |-> 401, user |-> user_obj]
    ELSE [status |-> 200, user |-> user_obj]

LoginLog_mut(out) ==
    IF out.user # Anonymous
    THEN Append(activity_log, [user |-> out.user, action |-> "USER_LOGIN_SUCCESS"])
    ELSE activity_log
\* line 54: the entry is created once authenticate has returned the user
LoginLog(out) ==
    IF out.status = 200
    THEN Append(activity_log, [user |-> out.user, action |-> "USER_LOGIN_SUCCESS"])
    ELSE activity_log

LoginPost(data) ==
    /\ Len(activity_log) < MaxLog
    /\ request' = [op |-> "login", user |-> Anonymous, data |-> data]
    /\ \E user_obj \in IF LoginLookup(LoginIdentifier(data)) = {} THEN {Anonymous}
                       ELSE LoginLookup(LoginIdentifier(data)) :
          LET out == LoginOutcome(data, user_obj)
          IN /\ activity_log' = LoginLog(out)
             /\ tokens' = IF out.status = 200 THEN Append(tokens, out.user) ELSE tokens
             /\ response' = IF out.status = 200
                            THEN [status |-> 200, access |-> out.user, refresh |-> out.user]
                            ELSE [status |-> out.status]
    /\ UNCHANGED <<billing, owned, seeded>>

LogoutPost(u) ==
    /\ Len(activity_log) < MaxLog
    /\ request' = [op |-> "logout", user |-> u]
    /\ IF ~is_authenticated(u)
       THEN response' = Refused(u) /\ activity_log' = activity_log
       ELSE /\ activity_log' = Append(activity_log, [user |-> u, action |-> "USER_LOGOUT"])
            /\ response' = [status |-> 200]
    /\ UNCHANGED <<billing, owned, tokens, seeded>>

PageAccessLogPost(u, page_name) ==
    /\ Len(activity_log) < MaxLog
    /\ request' = [op |-> "page_access", user |-> u, page_name |-> page_name]
    /\ IF ~is_authenticated(u)
       THEN response' = Refused(u) /\ activity_log' = activity_log
       ELSE /\ activity_log' = IF page_name.given /\ page_name.s # <<>>
                               THEN Append(activity_log, [user |-> u, action |-> "PAGE_ACCESS"])
                               ELSE activity_log
            /\ response' = [status |-> 201]
    /\ UNCHANGED <<billing, owned, tokens, seeded>>

InitAuth ==
    /\ fees = {}
    /\ payments = {}
    /\ units = InitialUnits
    /\ maintenance_requests = {}
    /\ comments = {}
    /\ attachments = {}
    /\ reservations = {}
    /\ notifications = {}
    /\ activity_log = <<>>
    /\ tokens = <<>>
    /\ users = Users
    /\ expense_types = ExpenseTypeNames
    /\ run = NoRun
    /\ request = NoRequest
    /\ response = NoResponse

EmailInputs == {StrAbsent, StrGiven(<<>>), StrGiven(<<" ">>), StrGiven(<<"a", "@">>),
                StrGiven(<<"A", "@">>), StrGiven(<<"z", "@">>)}
UsernameInputs == {StrAbsent, StrGiven(<<"a">>), StrGiven(<<" ", "A", " ">>),
                   StrGiven(<<"q">>), StrGiven(<<"z">>)}
PasswordInputs == {StrAbsent, StrGiven(<<>>), StrGiven(<<" ">>), StrGiven(<<"p">>),
                   StrGiven(<<" ", "p">>), StrGiven(<<"w">>), StrGiven(<<"x">>)}

NextAuth ==
    \/ Idle /\ \E e \in EmailInputs, n \in UsernameInputs, p \in PasswordInputs :
                  LoginPost([email |-> e, username |-> n, password |-> p])
    \/ Idle /\ \E u \in Callers : LogoutPost(u)
    \/ Idle /\ \E u \in {Anonymous, "r1"}, n \in {StrAbsent, StrGiven(<<"z">>)} :
                  PageAccessLogPost(u, n)
    \/ Complete

SpecAuth == InitAuth /\ [][NextAuth]_vars

\* The users of the USER_LOGIN_SUCCESS entries of a log, oldest first.
RECURSIVE LoginUsers(_)
LoginUsers(log) ==
    IF log = <<>> THEN <<>>
    ELSE IF Head(log).action = "USER_LOGIN_SUCCESS"
         THEN <<Head(log).user>> \o LoginUsers(Tail(log))
         ELSE LoginUsers(Tail(log))

Blank(x) == ~x.given \/ \A i \in DOMAIN x.s : x.s[i] = " "

\* C9: the USER_LOGIN_SUCCESS entries are, in order, the token pairs issued.
\* A login whose identifier (the email field, or the username field when the
\* email is absent or empty) or password is missing or blank answers 400;
\* one whose identifier names no user, or whose password is not that user's,
\* answers 401; neither issues a token nor logs.  A login that answers 200
\* logs one entry for the user it issues the tokens to.  Every logout of an
\* authenticated caller adds one USER_LOGOUT entry for the caller.
C9_LoginLogsExactlyWhenTokenIssued ==
    [][(Idle /\ response' # NoResponse) =>
        /\ LoginUsers(activity_log') = tokens'
        /\ request'.op = "login" =>
             LET d == request'.data
                 field == IF d.email.given /\ d.email.s # <<>> THEN d.email ELSE d.username
                 known == {u \in Users : IExact(Username(u), Strip(field.s))
                                            \/ IExact(Email(u), Strip(field.s))}
             IN /\ response'.status \in {200, 400, 401}
                /\ (Blank(field) \/ Blank(d.password)) => response'.status = 400
                /\ (~Blank(field) /\ ~Blank(d.password) /\
                      (known = {} \/ \A u \in known : Password(u) # Strip(d.password.s)))
                        => response'.status = 401
                /\ response'.status # 200 =>
                      activity_log' = activity_log /\ tokens' = tokens
                /\ response'.status = 200 =>
                      /\ response'.access \in known
                      /\ tokens' = Append(tokens, response'.access)
                      /\ activity_log' = Append(activity_log,
                            [user |-> response'.access, action |-> "USER_LOGIN_SUCCESS"])
        /\ request'.op = "logout" =>
             /\ tokens' = tokens
             /\ IF is_authenticated(request'.user)
                THEN activity_log' = Append(activity_log,
                            [user |-> request'.user, action |-> "USER_LOGOUT"])
                ELSE activity_log' = activity_log /\ response'.status = 401
    ]_vars

C9_Witness ==
    /\ request.op = "login" /\ response.status = 200
    /\ request.data.username = StrGiven(<<" ", "A", " ">>)
    /\ request.data.password = StrGiven(<<" ", "p">>)
    /\ activity_log = <<[user |-> "admin", action |-> "USER_LOGOUT"],
                        [user |-> "admin", action |-> "USER_LOGIN_SUCCESS"]>>
    /\ tokens = <<"admin">>

C9_WitnessWrongPassword ==
    /\ request.op = "login" /\ response.status = 401
    /\ request.data.email = StrGiven(<<"A", "@">>)
    /\ request.data.password = StrGiven(<<"w">>)
    /\ tokens = <<"admin">>

(***************************************************************************)
(* MaintenanceRequestViewSet                                               *)
(***************************************************************************)
MaxRequests == 2

\* MaintenanceRequest.status: populate_db seeds PENDING and IN_PROGRESS; the
\* third value is the resolved state the lifecycle ends in.
MaintStatuses == {"PENDING", "IN_PROGRESS", "RESOLVED"}
Titles == {"t1", "t2"}

MaintRow(id, reported_by, title, status) ==
    [id |-> id, reported_by |-> reported_by, title |-> title, status |-> status]

\* permission_classes = [permissions.IsAuthenticated]
MaintPermission(u) == is_authenticated(u)

\* get_queryset: everything for staff and for role ADMIN, else the user's own
MaintGetQueryset(u) ==
    IF ~(is_staff(u) \/ Role(u) = "ADMIN")
    THEN {r \in maintenance_requests : r.reported_by = u}
    ELSE maintenance_requests

MaintWritable_mut(u) == {"title", "status"}
\* MaintenanceRequestSerializer: the fields a request of user u may write.
\* status is the admin's to set; reported_by is set by perform_create only.
MaintWritable(u) == IF Role(u) = "ADMIN" THEN {"title", "status"} ELSE {"title"}

\* serializer.save() on an instance
MaintApply(u, row, data) ==
    [k \in DOMAIN row |->
        IF k \in DOMAIN data \cap MaintWritable(u) THEN data[k] ELSE row[k]]

\* a request deleted takes its comments and attachments with it
RequestCascade(tbl, pk) == {c \in tbl : c.request # pk}

MaintList(u) ==
    /\ request' = [op |-> "maint_list", user |-> u]
    /\ response' = IF ~MaintPermission(u) THEN Refused(u)
                   ELSE [status |-> 200, rows |-> MaintGetQueryset(u)]
    /\ UNCHANGED <<billing, owned, auth, seeded>>

MaintRetrieve(u, pk) ==
    /\ request' = [op |-> "maint_retrieve", user |-> u, pk |-> pk]
    /\ response' = IF ~MaintPermission(u) THEN Refused(u)
                   ELSE IF ~HasPk(MaintGetQueryset(u), pk) THEN [status |-> 404]
                   ELSE [status |-> 200, row |-> ByPk(MaintGetQueryset(u), pk)]
    /\ UNCHANGED <<billing, owned, auth, seeded>>

\* create, with perform_create: serializer.save(reported_by=request.user)
MaintCreate(u, data) ==
    /\ request' = [op |-> "maint_create", user |-> u, data |-> data]
    /\ IF ~MaintPermission(u)
       THEN response' = Refused(u) /\ maintenance_requests' = maintenance_requests
       ELSE /\ Cardinality(maintenance_requests) < MaxRequests
            /\ LET id == NewId(maintenance_requests, MaxRequests)
                   row == MaintApply(u, MaintRow(id, u, "t1", "PENDING"), data)
               IN /\ maintenance_requests' = maintenance_requests \cup {row}
                  /\ response' = [status |-> 201, row |-> row]
    /\ UNCHANGED <<billing, comments, attachments, reservations, notifications, auth, seeded>>

MaintUpdate(action, u, pk, data) ==
    /\ request' = [op |-> "maint_" \o action, user |-> u, pk |-> pk, data |-> data]
    /\ IF ~MaintPermission(u)
       THEN response' = Refused(u) /\ maintenance_requests' = maintenance_requests
       ELSE IF ~HasPk(MaintGetQueryset(u), pk)
       THEN response' = [status |-> 404] /\ maintenance_requests' = maintenance_requests
       ELSE LET old == ByPk(MaintGetQueryset(u), pk)
                row == MaintApply(u, old, data)
            IN /\ maintenance_requests' = (maintenance_requests \ {old}) \cup {row}
               /\ response' = [status |-> 200, row |-> row]
    /\ UNCHANGED <<billing, comments, attachments, reservations, notifications, auth, seeded>>

MaintDestroy(u, pk) ==
    /\ request' = [op |-> "maint_destroy", user |-> u, pk |-> pk]
    /\ IF ~MaintPermission(u)
       THEN response' = Refused(u)
            /\ UNCHANGED <<maintenance_requests, comments, attachments>>
       ELSE IF ~HasPk(MaintGetQueryset(u), pk)
       THEN response' = [status |-> 404]
            /\ UNCHANGED <<maintenance_requests, comments, attachments>>
       ELSE /\ maintenance_requests' = maintenance_requests \ {ByPk(MaintGetQueryset(u), pk)}
            /\ comments' = RequestCascade(comments, pk)
            /\ attachments' = RequestCascade(attachments, pk)
            /\ response' = [status |-> 204]
    /\ UNCHANGED <<billing, reservations, notifications, auth, seeded>>

\* populate_db's requests are reported by residents, PENDING or IN_PROGRESS
InitMaint ==
    /\ fees = {}
    /\ payments = {}
    /\ units = InitialUnits
    /\ \E st \in {"PENDING", "IN_PROGRESS"} :
          maintenance_requests = {MaintRow(1, "r1", "t1", st)}
    /\ comments = {}
    /\ attachments = {}
    /\ reservations = {}
    /\ notifications = {}
    /\ activity_log = <<>>
    /\ tokens = <<>>
    /\ users = Users
    /\ expense_types = ExpenseTypeNames
    /\ run = NoRun
    /\ request = NoRequest
    /\ response = NoResponse

MaintPks == 1..(MaxRequests + 1)
\* request bodies: a title, a status, both or neither
MaintData ==
    {[title |-> "t2"]} \cup [status : MaintStatuses]
    \cup [title : {"t2"}, status : MaintStatuses] \cup {<<>>}
MaintCreators == {"r1", "admin", Anonymous}

NextMaint ==
    \/ Idle /\ \E u \in Callers : MaintList(u)
    \/ Idle /\ \E u \in Callers, pk \in MaintPks : MaintRetrieve(u, pk)
    \/ Idle /\ \E u \in MaintCreators, d \in MaintData : MaintCreate(u, d)
    \/ Idle /\ \E u \in Callers, pk \in MaintPks, d \in MaintData,
                  a \in {"update", "partial_update"} : MaintUpdate(a, u, pk, d)
    \/ Idle /\ \E u \in Callers, pk \in MaintPks : MaintDestroy(u, pk)
    \/ Complete

SpecMaint == InitMaint /\ [][NextMaint]_vars

C6_WitnessAdmin ==
    /\ request.op = "maint_update" /\ request.user = "admin"
    /\ response.status = 200
    /\ response.row.status = "RESOLVED"

(***************************************************************************)
(* ReservationViewSet, MaintenanceRequestCommentViewSet                    *)
(***************************************************************************)
MaxOwned == 1

\* IsOwnerOrAdmin: an authenticated user, and for one object its owner or an
\* ADMIN.
IsOwnerOrAdminPermission(u) == is_authenticated(u)
IsOwnerOrAdminObject(u, obj) == Role(u) = "ADMIN" \/ obj.user = u

\* get_queryset: everything for role ADMIN, else the user's own reservations
ReservationGetQueryset(u) ==
    IF Role(u) = "ADMIN" THEN reservations
    ELSE {r \in reservations : r.user = u}

ReservationList(u) ==
    /\ request' = [op |-> "reservation_list", user |-> u]
    /\ response' = IF ~IsOwnerOrAdminPermission(u) THEN Refused(u)
                   ELSE [status |-> 200, rows |-> ReservationGetQueryset(u)]
    /\ UNCHANGED <<billing, owned, auth, seeded>>

\* get_object: the lookup in get_queryset, then the object permission
ReservationRetrieve(u, pk) ==
    /\ request' = [op |-> "reservation_retrieve", user |-> u, pk |-> pk]
    /\ response' = IF ~IsOwnerOrAdminPermission(u) THEN Refused(u)
                   ELSE IF ~HasPk(ReservationGetQueryset(u), pk) THEN [status |-> 404]
                   ELSE IF ~IsOwnerOrAdminObject(u, ByPk(ReservationGetQueryset(u), pk))
                   THEN [status |-> 403]
                   ELSE [status |-> 200, row |-> ByPk(ReservationGetQueryset(u), pk)]
    /\ UNCHANGED <<billing, owned, auth, seeded>>

\* create, with perform_create: serializer.save(user=request.user)
ReservationCreate(u, area) ==
    /\ request' = [op |-> "reservation_create", user |-> u, area |-> area]
    /\ IF ~IsOwnerOrAdminPermission(u)
       THEN response' = Refused(u) /\ reservations' = reservations
       ELSE /\ Cardinality(reservations) < MaxOwned
            /\ LET row == [id |-> NewId(reservations, MaxOwned), user |-> u, area |-> area]
               IN /\ reservations' = reservations \cup {row}
                  /\ response' = [status |-> 201, row |-> row]
    /\ UNCHANGED <<billing, maintenance_requests, comments, attachments, notifications, auth, seeded>>

ReservationUpdate(action, u, pk, area) ==
    /\ request' = [op |-> "reservation_" \o action, user |-> u, pk |-> pk, area |-> area]
    /\ IF ~IsOwnerOrAdminPermission(u)
       THEN response' = Refused(u) /\ reservations' = reservations
       ELSE IF ~HasPk(ReservationGetQueryset(u), pk)
       THEN response' = [status |-> 404] /\ reservations' = reservations
       ELSE LET old == ByPk(ReservationGetQueryset(u), pk)
                row == [old EXCEPT !.area = area]
            IN IF ~IsOwnerOrAdminObject(u, old)
               THEN response' = [status |-> 403] /\ reservations' = reservations
               ELSE /\ reservations' = (reservations \ {old}) \cup {row}
                    /\ response' = [status |-> 200, row |-> row]
    /\ UNCHANGED <<billing, maintenance_requests, comments, attachments, notifications, auth, seeded>>

ReservationDestroy(u, pk) ==
    /\ request' = [op |-> "reservation_destroy", user |-> u, pk |-> pk]
    /\ IF ~IsOwnerOrAdminPermission(u)
       THEN response' = Refused(u) /\ reservations' = reservations
       ELSE IF ~HasPk(ReservationGetQueryset(u), pk)
       THEN response' = [status |-> 404] /\ reservations' = reservations
       ELSE IF ~IsOwnerOrAdminObject(u, ByPk(ReservationGetQueryset(u), pk))
       THEN response' = [status |-> 403] /\ reservations' = reservations
       ELSE /\ reservations' = reservations \ {ByPk(ReservationGetQueryset(u), pk)}
            /\ response' = [status |-> 204]
    /\ UNCHANGED <<billing, maintenance_requests, comments, attachments, notifications, auth, seeded>>

\* MaintenanceRequestCommentViewSet: permission_classes = [IsAuthenticated]
CommentPermission(u) == is_authenticated(u)

\* queryset = MaintenanceRequestComment.objects.all(); the view set has no
\* get_queryset of its own
CommentGetQueryset(u) == comments

CommentList(u) ==
    /\ request' = [op |-> "comment_list", user |-> u]
    /\ response' = IF ~CommentPermission(u) THEN Refused(u)
                   ELSE [status |-> 200, rows |-> CommentGetQueryset(u)]
    /\ UNCHANGED <<billing, owned, auth, seeded>>

CommentRetrieve(u, pk) ==
    /\ request' = [op |-> "comment_retrieve", user |-> u, pk |-> pk]
    /\ response' = IF ~CommentPermission(u) THEN Refused(u)
                   ELSE IF ~HasPk(CommentGetQueryset(u), pk) THEN [status |-> 404]
                   ELSE [status |-> 200, row |-> ByPk(CommentGetQueryset(u), pk)]
    /\ UNCHANGED <<billing, owned, auth, seeded>>

\* create, with perform_create: serializer.save(user=request.user); the
\* request commented on is named by the body and must exist
CommentCreate(u, req, text) ==
    /\ request' = [op |-> "comment_create", user |-> u, request |-> req, text |-> text]
    /\ IF ~CommentPermission(u)
       THEN response' = Refused(u) /\ comments' = comments
       ELSE IF ~HasPk(maintenance_requests, req)
       THEN response' = [status |-> 400] /\ comments' = comments
       ELSE /\ Cardinality(comments) < MaxOwned
            /\ LET row == [id |-> NewId(comments, MaxOwned), request |-> req,
                           user |-> u, text |-> text]
               IN /\ comments' = comments \cup {row}
                  /\ response' = [status |-> 201, row |-> row]
    /\ UNCHANGED <<billing, maintenance_requests, attachments, reservations, notifications, auth, seeded>>

CommentUpdate(action, u, pk, text) ==
    /\ request' = [op |-> "comment_" \o action, user |-> u, pk |-> pk, text |-> text]
    /\ IF ~CommentPermission(u)
       THEN response' = Refused(u) /\ comments' = comments
       ELSE IF ~HasPk(CommentGetQueryset(u), pk)
       THEN response' = [status |-> 404] /\ comments' = comments
       ELSE LET old == ByPk(CommentGetQueryset(u), pk)
                row == [old EXCEPT !.text = text]
            IN /\ comments' = (comments \ {old}) \cup {row}
               /\ response' = [status |-> 200, row |-> row]
    /\ UNCHANGED <<billing, maintenance_requests, attachments, reservations, notifications, auth, seeded>>

CommentDestroy(u, pk) ==
    /\ request' = [op |-> "comment_destroy", user |-> u, pk |-> pk]
    /\ IF ~CommentPermission(u)
       THEN response' = Refused(u) /\ comments' = comments
       ELSE IF ~HasPk(CommentGetQueryset(u), pk)
       THEN response' = [status |-> 404] /\ comments' = comments
       ELSE /\ comments' = comments \ {ByPk(CommentGetQueryset(u), pk)}
            /\ response' = [status |-> 204]
    /\ UNCHANGED <<billing, maintenance_requests, attachments, reservations, notifications, auth, seeded>>

(***************************************************************************)
(* MaintenanceRequestAttachmentViewSet, NotificationViewSet                *)
(***************************************************************************)
\* permission_classes = [IsAuthenticated]
AttachmentPermission(u) == is_authenticated(u)

\* queryset = MaintenanceRequestAttachment.objects.all(); no get_queryset
AttachmentGetQueryset(u) == attachments

\* MaintenanceRequestAttachmentSerializer: the request a new attachment names
\* must exist and be one the user may see
AttachmentSerializerValid(u, req) == HasPk(MaintGetQueryset(u), req)

AttachmentList(u) ==
    /\ request' = [op |-> "attachment_list", user |-> u]
    /\ response' = IF ~AttachmentPermission(u) THEN Refused(u)
                   ELSE [status |-> 200, rows |-> AttachmentGetQueryset(u)]
    /\ UNCHANGED <<billing, owned, auth, seeded>>

AttachmentRetrieve(u, pk) ==
    /\ request' = [op |-> "attachment_retrieve", user |-> u, pk |-> pk]
    /\ response' = IF ~AttachmentPermission(u) THEN Refused(u)
                   ELSE IF ~HasPk(AttachmentGetQueryset(u), pk) THEN [status |-> 404]
                   ELSE [status |-> 200, row |-> ByPk(AttachmentGetQueryset(u), pk)]
    /\ UNCHANGED <<billing, owned, auth, seeded>>

\* create, with perform_create: serializer.save()
AttachmentCreate(u, req, file) ==
    /\ request' = [op |-> "attachment_create", user |-> u, request |-> req, file |-> file]
    /\ IF ~AttachmentPermission(u)
       THEN response' = Refused(u) /\ attachments' = attachments
       ELSE IF ~AttachmentSerializerValid(u, req)
       THEN response' = [status |-> 400] /\ attachments' = attachments
       ELSE /\ Cardinality(attachments) < MaxOwned
            /\ LET row == [id |-> NewId(attachments, MaxOwned), request |-> req, file |-> file]
               IN /\ attachments' = attachments \cup {row}
                  /\ response' = [status |-> 201, row |-> row]
    /\ UNCHANGED <<billing, maintenance_requests, comments, reservations, notifications, auth, seeded>>

AttachmentUpdate(action, u, pk, file) ==
    /\ request' = [op |-> "attachment_" \o action, user |-> u, pk |-> pk, file |-> file]
    /\ IF ~AttachmentPermission(u)
       THEN response' = Refused(u) /\ attachments' = attachments
       ELSE IF ~HasPk(AttachmentGetQueryset(u), pk)
       THEN response' = [status |-> 404] /\ attachments' = attachments
       ELSE LET old == ByPk(AttachmentGetQueryset(u), pk)
                row == [old EXCEPT !.file = file]
            IN /\ attachments' = (attachments \ {old}) \cup {row}
               /\ response' = [status |-> 200, row |-> row]
    /\ UNCHANGED <<billing, maintenance_requests, comments, reservations, notifications, auth, seeded>>

AttachmentDestroy(u, pk) ==
    /\ request' = [op |-> "attachment_destroy", user |-> u, pk |-> pk]
    /\ IF ~AttachmentPermission(u)
       THEN response' = Refused(u) /\ attachments' = attachments
       ELSE IF ~HasPk(AttachmentGetQueryset(u), pk)
       THEN response' = [status |-> 404] /\ attachments' = attachments
       ELSE /\ attachments' = attachments \ {ByPk(AttachmentGetQueryset(u), pk)}
            /\ response' = [status |-> 204]
    /\ UNCHANGED <<billing, maintenance_requests, comments, reservations, notifications, auth, seeded>>

\* NotificationViewSet: permission_classes = [IsAuthenticated]
NotificationPermission(u) == is_authenticated(u)

\* get_queryset: Notification.objects.filter(user=self.request.user)
NotificationGetQueryset(u) == {n \in notifications : n.user = u}

\* NotificationSerializer: the user a notification created by u is stored for
NotificationSerializerUser(u) == u

NotificationList(u) ==
    /\ request' = [op |-> "notification_list", user |-> u]
    /\ response' = IF ~NotificationPermission(u) THEN Refused(u)
                   ELSE [status |-> 200, rows |-> NotificationGetQueryset(u)]
    /\ UNCHANGED <<billing, owned, auth, seeded>>

NotificationRetrieve(u, pk) ==
    /\ request' = [op |-> "notification_retrieve", user |-> u, pk |-> pk]
    /\ response' = IF ~NotificationPermission(u) THEN Refused(u)
                   ELSE IF ~HasPk(NotificationGetQueryset(u), pk) THEN [status |-> 404]
                   ELSE [status |-> 200, row |-> ByPk(NotificationGetQueryset(u), pk)]
    /\ UNCHANGED <<billing, owned, auth, seeded>>

NotificationCreate(u) ==
    /\ request' = [op |-> "notification_create", user |-> u]
    /\ IF ~NotificationPermission(u)
       THEN response' = Refused(u) /\ notifications' = notifications
       ELSE /\ Cardinality(notifications) < MaxOwned
            /\ LET row == [id |-> NewId(notifications, MaxOwned),
                           user |-> NotificationSerializerUser(u), is_read |-> FALSE]
               IN /\ notifications' = notifications \cup {row}
                  /\ response' = [status |-> 201, row |-> row]
    /\ UNCHANGED <<billing, maintenance_requests, comments, attachments, reservations, auth, seeded>>

NotificationUpdate(action, u, pk, is_read) ==
    /\ request' = [op |-> "notification_" \o action, user |-> u, pk |-> pk,
                   is_read |-> is_read]
    /\ IF ~NotificationPermission(u)
       THEN response' = Refused(u) /\ notifications' = notifications
       ELSE IF ~HasPk(NotificationGetQueryset(u), pk)
       THEN response' = [status |-> 404] /\ notifications' = notifications
       ELSE LET old == ByPk(NotificationGetQueryset(u), pk)
                row == [old EXCEPT !.is_read = is_read]
            IN /\ notifications' = (notifications \ {old}) \cup {row}
               /\ response' = [status |-> 200, row |-> row]
    /\ UNCHANGED <<billing, maintenance_requests, comments, attachments, reservations, auth, seeded>>

NotificationDestroy(u, pk) ==
    /\ request' = [op |-> "notification_destroy", user |-> u, pk |-> pk]
    /\ IF ~NotificationPermission(u)
       THEN response' = Refused(u) /\ notifications' = notifications
       ELSE IF ~HasPk(NotificationGetQueryset(u), pk)
       THEN response' = [status |-> 404] /\ notifications' = notifications
       ELSE /\ notifications' = notifications \ {ByPk(NotificationGetQueryset(u), pk)}
            /\ response' = [status |-> 204]
    /\ UNCHANGED <<billing, maintenance_requests, comments, attachments, reservations, auth, seeded>>

\* mark_all_as_read: self.get_queryset().update(is_read=True), 204
NotificationMarkAllAsRead(u) ==
    /\ request' = [op |-> "notification_mark_all_as_read", user |-> u]
    /\ IF ~NotificationPermission(u)
       THEN response' = Refused(u) /\ notifications' = notifications
       ELSE /\ notifications' =
                 {IF n \in NotificationGetQueryset(u) THEN [n EXCEPT !.is_read = TRUE] ELSE n :
                     n \in notifications}
            /\ response' = [status |-> 204]
    /\ UNCHANGED <<billing, maintenance_requests, comments, attachments, reservations, auth, seeded>>

\* Two residents' requests, and one record of r1 in each of the other tables.
InitAccess ==
    /\ fees = {}
    /\ payments = {}
    /\ units = InitialUnits
    /\ maintenance_requests = {MaintRow(1, "r1", "t1", "PENDING"),
                               MaintRow(2, "r2", "t1", "IN_PROGRESS")}
    /\ comments = {[id |-> 1, request |-> 1, user |-> "r1", text |-> "c1"]}
    /\ attachments = {[id |-> 1, request |-> 1, file |-> "f1"]}
    /\ reservations = {[id |-> 1, user |-> "r1", area |-> "a1"]}
    /\ notifications = {[id |-> 1, user |-> "r1", is_read |-> FALSE]}
    /\ activity_log = <<>>
    /\ tokens = <<>>
    /\ users = Users
    /\ expense_types = ExpenseTypeNames
    /\ run = NoRun
    /\ request = NoRequest
    /\ response = NoResponse

AccessCallers == {"r1", "r2", Anonymous}
OwnedPks == 1..(MaxOwned + 1)
Updates == {"update", "partial_update"}

NextAccess ==
    \/ Idle /\ \E u \in AccessCallers : ReservationList(u)
    \/ Idle /\ \E u \in AccessCallers, pk \in OwnedPks : ReservationRetrieve(u, pk)
    \/ Idle /\ \E u \in AccessCallers : ReservationCreate(u, "a1")
    \/ Idle /\ \E u \in AccessCallers, pk \in OwnedPks, a \in Updates :
                  ReservationUpdate(a, u, pk, "a2")
    \/ Idle /\ \E u \in AccessCallers, pk \in OwnedPks : ReservationDestroy(u, pk)
    \/ Idle /\ \E u \in AccessCallers : MaintList(u)
    \/ Idle /\ \E u \in AccessCallers, pk \in MaintPks : MaintRetrieve(u, pk)
    \/ Idle /\ \E u \in AccessCallers, pk \in MaintPks, a \in Updates :
                  MaintUpdate(a, u, pk, [title |-> "t2"])
    \/ Idle /\ \E u \in AccessCallers, pk \in MaintPks : MaintDestroy(u, pk)
    \/ Idle /\ \E u \in AccessCallers : CommentList(u)
    \/ Idle /\ \E u \in AccessCallers, pk \in OwnedPks : CommentRetrieve(u, pk)
    \/ Idle /\ \E u \in AccessCallers, req \in MaintPks : CommentCreate(u, req, "c1")
    \/ Idle /\ \E u \in AccessCallers, pk \in OwnedPks, a \in Updates :
                  CommentUpdate(a, u, pk, "c2")
    \/ Idle /\ \E u \in AccessCallers, pk \in OwnedPks : CommentDestroy(u, pk)
    \/ Idle /\ \E u \in AccessCallers : AttachmentList(u)
    \/ Idle /\ \E u \in AccessCallers, pk \in OwnedPks : AttachmentRetrieve(u, pk)
    \/ Idle /\ \E u \in AccessCallers, req \in MaintPks : AttachmentCreate(u, req, "f1")
    \/ Idle /\ \E u \in AccessCallers, pk \in OwnedPks, a \in Updates :
                  AttachmentUpdate(a, u, pk, "f2")
    \/ Idle /\ \E u \in AccessCallers, pk \in OwnedPks : AttachmentDestroy(u, pk)
    \/ Idle /\ \E u \in AccessCallers : NotificationList(u)
    \/ Idle /\ \E u \in AccessCallers, pk \in OwnedPks : NotificationRetrieve(u, pk)
    \/ Idle /\ \E u \in AccessCallers : NotificationCreate(u)
    \/ Idle /\ \E u \in AccessCallers, pk \in OwnedPks, a \in Updates :
                  NotificationUpdate(a, u, pk, TRUE)
    \/ Idle /\ \E u \in AccessCallers, pk \in OwnedPks : NotificationDestroy(u, pk)
    \/ Idle /\ \E u \in AccessCallers : NotificationMarkAllAsRead(u)
    \/ Complete

SpecAccess == InitAccess /\ [][NextAccess]_vars

\* The user a record belongs to: who made the reservation, reported the
\* request, wrote the comment or is notified; an attachment belongs to the
\* reporter of its request.
OwnerOf(row, reqs) ==
    IF "reported_by" \in DOMAIN row THEN row.reported_by
    ELSE IF "user" \in DOMAIN row THEN row.user
    ELSE IF HasPk(reqs, row.request) THEN ByPk(reqs, row.request).reported_by
    ELSE Anonymous

\* the records a response shows
Exposed(resp) ==
    IF "rows" \in DOMAIN resp THEN resp.rows
    ELSE IF "row" \in DOMAIN resp THEN {resp.row}
    ELSE {}

OpsOf(entity) ==
    {entity \o "_" \o a : a \in {"list", "retrieve", "create", "update",
                                 "partial_update", "destroy", "mark_all_as_read"}}

\* What a handler on table tbl may do for user u: show, change and delete
\* only u's records, and store only records owned by u.
OwnOnly(u, tbl, tbl2, reqs, reqs2, resp) ==
    /\ \A r \in Exposed(resp) : OwnerOf(r, reqs2) = u
    /\ \A r \in tbl \ tbl2 : OwnerOf(r, reqs) = u
    /\ \A r \in tbl2 \ tbl : OwnerOf(r, reqs2) = u

\* C7: every handler on Reservation, MaintenanceRequest, its comments and
\* attachments, and Notification, called by an authenticated user who is
\* neither ADMIN nor staff, shows, changes and deletes only records that user
\* owns, and stores a new record with that user as owner.
C7_Original ==
    [][(/\ Idle /\ response' # NoResponse
        /\ is_authenticated(request'.user)
        /\ Role(request'.user) # "ADMIN" /\ ~is_staff(request'.user)) =>
        LET u == request'.user
            op == request'.op
        IN /\ op \in OpsOf("reservation") =>
                 OwnOnly(u, reservations, reservations', maintenance_requests,
                         maintenance_requests', response')
           /\ op \in OpsOf("maint") =>
                 OwnOnly(u, maintenance_requests, maintenance_requests',
                         maintenance_requests, maintenance_requests', response')
           /\ op \in OpsOf("comment") =>
                 OwnOnly(u, comments, comments', maintenance_requests,
                         maintenance_requests', response')
           /\ op \in OpsOf("attachment") =>
                 OwnOnly(u, attachments, attachments', maintenance_requests,
                         maintenance_requests', response')
           /\ op \in OpsOf("notification") =>
                 OwnOnly(u, notifications, notifications', maintenance_requests,
                         maintenance_requests', response')
    ]_vars

\* The same statement for the three view sets that filter by owner.
C7_FilteredViewSets ==
    [][(/\ Idle /\ response' # NoResponse
        /\ is_authenticated(request'.user)
        /\ Role(request'.user) # "ADMIN" /\ ~is_staff(request'.user)) =>
        LET u == request'.user
            op == request'.op
        IN /\ op \in OpsOf("reservation") =>
                 OwnOnly(u, reservations, reservations', maintenance_requests,
                         maintenance_requests', response')
           /\ op \in OpsOf("maint") =>
                 OwnOnly(u, maintenance_requests, maintenance_requests',
                         maintenance_requests, maintenance_requests', response')
           /\ op \in OpsOf("notification") =>
                 OwnOnly(u, notifications, notifications', maintenance_requests,
                         maintenance_requests', response')
    ]_vars

\* r2 deletes the comment r1 wrote on r1's own request
C7_ForeignCommentDeleted ==
    /\ request.op = "comment_destroy" /\ request.user = "r2"
    /\ response.status = 204
    /\ comments = {}
    /\ \E r \in maintenance_requests : r.id = 1 /\ r.reported_by = "r1"

(***************************************************************************)
(* populate_db: Command.handle                                             *)
(***************************************************************************)
NumFamilies == 2     \* families a run creates (num_families, 50 in the command)
NumRequests == 1     \* maintenance requests a run creates (5 in the command)

\* The unit codes a run draws from: f'T{tower}-{number}-{letter}'.  The
\* command has towers A-C, numbers 1-25 and letters A-D; the model keeps the
\* shape with fewer of each.
Towers == {"A", "B"}
Numbers == {1}
Letters == {"A", "B"}
UnitCode(tower, number, letter) == <<"T", tower, "-", number, "-", letter>>
SeedCodes == {UnitCode(t, n, l) : t \in Towers, n \in Numbers, l \in Letters}

\* f'{first_name.lower()}.{last_name.lower()}{random.randint(1,99)}'.  A drawn
\* name is one a user has already or a new one; the first of the names no
\* user has stands for every new one.
SeedUsernameList == <<"n1", "n2", "n3", "n4", "n5">>
SeedUsernames == {SeedUsernameList[k] : k \in DOMAIN SeedUsernameList}
UsernameDraws(tbl) ==
    {SeedUsernameList[k] : k \in {k \in DOMAIN SeedUsernameList :
        \/ SeedUsernameList[k] \in tbl
        \/ \A h \in 1..(k - 1) : SeedUsernameList[h] \in tbl}}

\* range(1, 4) and f'2025-0{9-month}': 2025-08, 2025-07, 2025-06
Months == 1..3
SeedPeriod(month) == 9 - month

\* ExpenseType.amount_default of the two types the command creates
AmountDefault(name) == IF name = "Cuota de Mantenimiento" THEN 1500 ELSE 500

\* the admin is created with is_superuser=True
is_superuser(u) == u = "admin"

\* The tables, as one value.
Database ==
    [fees |-> fees, payments |-> payments, units |-> units,
     maintenance_requests |-> maintenance_requests, comments |-> comments,
     attachments |-> attachments, reservations |-> reservations,
     notifications |-> notifications, users |-> users,
     expense_types |-> expense_types]

Restore(db) ==
    /\ fees' = db.fees
    /\ payments' = db.payments
    /\ units' = db.units
    /\ maintenance_requests' = db.maintenance_requests
    /\ comments' = db.comments
    /\ attachments' = db.attachments
    /\ reservations' = db.reservations
    /\ notifications' = db.notifications
    /\ users' = db.users
    /\ expense_types' = db.expense_types

AtomicOnException_mut(before, now) == now
\* @transaction.atomic around handle: an exception leaving handle rolls the
\* transaction back, to the tables as they were when handle was entered.
AtomicOnException(before, now) == before

\* an exception leaves handle
SeedRaise ==
    /\ Restore(AtomicOnException(run.before, Database))
    /\ run' = [pc |-> "idle", outcome |-> "raised", clean |-> run.clean]

SeedAt(pc) == run.pc = pc
SeedGoto(pc) == run' = [run EXCEPT !.pc = pc]

\* handle is entered, with or without --clean
SeedStart(clean) ==
    /\ SeedAt("idle")
    /\ run' = [pc |-> IF clean THEN "clean" ELSE "globals", outcome |-> "none",
               clean |-> clean, i |-> 0, resident |-> "", unit_code |-> <<>>,
               j |-> 0, before |-> Database]
    /\ UNCHANGED <<billing, owned, auth, users, expense_types, request, response>>

\* --clean: the deletes of lines 34-47; what hangs on a deleted row goes with it
SeedClean ==
    /\ SeedAt("clean")
    /\ maintenance_requests' = {}
    /\ comments' = {}
    /\ attachments' = {}
    /\ fees' = {}
    /\ payments' = {}
    /\ units' = {}
    /\ users' = {u \in users : is_superuser(u)}
    /\ reservations' = {r \in reservations : is_superuser(r.user)}
    /\ notifications' = {n \in notifications : is_superuser(n.user)}
    /\ expense_types' = {}
    /\ SeedGoto("globals")
    /\ UNCHANGED <<auth, request, response>>

\* 1 and 2: get_or_create of admin, staff and the two expense types
SeedGlobals ==
    /\ SeedAt("globals")
    /\ users' = users \cup {"admin", "staff"}
    /\ expense_types' = expense_types \cup {"Cuota de Mantenimiento", "Fondo de Reserva"}
    /\ SeedGoto("family")
    /\ UNCHANGED <<billing, owned, auth, request, response>>

\* 3: User.objects.create_user; a username another user has is an IntegrityError
SeedCreateUser(username) ==
    /\ SeedAt("family")
    /\ IF username \in users
       THEN SeedRaise
       ELSE /\ users' = users \cup {username}
            /\ run' = [run EXCEPT !.pc = "draw", !.resident = username]
            /\ UNCHANGED <<billing, owned, expense_types>>
    /\ UNCHANGED <<auth, request, response>>

\* one turn of `while True': draw a code, leave the loop if no Unit has it
SeedDrawCode(tower, number, letter) ==
    /\ SeedAt("draw")
    /\ LET unit_code == UnitCode(tower, number, letter)
       IN run' = [run EXCEPT !.unit_code = unit_code,
                             !.pc = IF ~HasCode(unit_code) THEN "unit" ELSE "draw"]
    /\ UNCHANGED <<billing, owned, auth, users, expense_types, request, response>>

\* Unit.objects.create(owner=resident, code=unit_code, ...), then the next family
SeedCreateUnit ==
    /\ SeedAt("unit")
    /\ units' = units \cup {[code |-> run.unit_code, owner |-> run.resident]}
    /\ run' = [run EXCEPT !.i = run.i + 1,
                          !.pc = IF run.i + 1 < NumFamilies THEN "family" ELSE "fees"]
    /\ UNCHANGED <<fees, payments, owned, auth, users, expense_types, request, response>>

\* The outcomes of `random.random() < 0.7' over the fees of one run: for
\* none, for all, for one expense type's.
PaidDraws == {"none", "all", "type"}
DrawnPaid(draw, t) ==
    CASE draw = "none" -> FALSE
      [] draw = "all" -> TRUE
      [] draw = "type" -> t.etype = "Fondo de Reserva"

\* for month ...: for unit in all_units: for et in expense_types
SeedTriples ==
    {[unit |-> u.code, etype |-> et, period |-> SeedPeriod(m)] :
        u \in units, et \in expense_types, m \in Months}

FeesOf(tbl, t) ==
    {f \in tbl : f.unit = t.unit /\ f.etype = t.etype /\ f.period = t.period}

\* A number for each triple of the loops, different for different triples.
\* The order of the turns shows in nothing but the keys the new fees get, and
\* a key is read only to find its row: any keys above the table's stand for
\* the ones the database gives.
IndexOf(seq, x) == CHOOSE k \in DOMAIN seq : seq[k] = x
TripleNumber(t) ==
    LET codes == <<"A", "B", "C", "D">>
        types == <<"Cuota de Mantenimiento", "Fondo de Reserva">>
        unit == (IndexOf(codes, t.unit[2]) * 25 + t.unit[4]) * 4 + IndexOf(codes, t.unit[6])
    IN (unit * 2 + IndexOf(types, t.etype)) * 10 + t.period

TopId(tbl) == IF tbl = {} THEN 0 ELSE CHOOSE m \in {f.id : f \in tbl} : \A f \in tbl : f.id <= m

SeedFeeLoop_mut(todo, tbl, draw) ==
    LET top == TopId(tbl)
        NewFeeId(t) == top + TripleNumber(t)
        Saved(fee) ==
            IF DrawnPaid(draw, [unit |-> fee.unit, etype |-> fee.etype, period |-> fee.period])
            THEN [fee EXCEPT !.status = "PAID"] ELSE fee
    IN tbl \cup
       {Saved(FeeRow(NewFeeId(t), t.unit, t.etype, t.period,
                     AmountDefault(t.etype), "ISSUED")) : t \in todo}
\* Fee.objects.get_or_create(unit, expense_type, period, defaults amount);
\* then, at random, fee.status = 'PAID' and fee.save()
SeedFeeLoop(todo, tbl, draw) ==
    LET missing == {t \in todo : FeesOf(tbl, t) = {}}
        top == TopId(tbl)
        NewFeeId(t) == top + TripleNumber(t)
        TripleOf(fee) == [unit |-> fee.unit, etype |-> fee.etype, period |-> fee.period]
        Saved(fee) ==
            IF TripleOf(fee) \in todo /\ DrawnPaid(draw, TripleOf(fee))
            THEN [fee EXCEPT !.status = "PAID"] ELSE fee
    IN {Saved(f) : f \in tbl} \cup
       {Saved(FeeRow(NewFeeId(t), t.unit, t.etype, t.period,
                     AmountDefault(t.etype), "ISSUED")) : t \in missing}

\* 4: the fees of the last three months; get_or_create raises
\* MultipleObjectsReturned on a triple that has more than one fee
SeedFees(draw) ==
    /\ SeedAt("fees")
    /\ IF \E t \in SeedTriples : Cardinality(FeesOf(fees, t)) > 1
       THEN SeedRaise
       ELSE /\ fees' = SeedFeeLoop(SeedTriples, fees, draw)
            /\ SeedGoto("requests")
            /\ UNCHANGED <<payments, units, owned, users, expense_types>>
    /\ UNCHANGED <<auth, request, response>>

\* User.objects.filter(profile__role='RESIDENT'): the users create_user made
Residents == users \ {"admin", "staff"}
\* The title and the status of a request are drawn and written, and nothing
\* in handle reads them: one of each stands for the draw.
SeedTitles == {"t1"}
SeedStatuses == {"PENDING"}

\* one turn of `for _ in range(5)': a request of a resident who has a unit
SeedRequest(reporter, title, status) ==
    /\ SeedAt("requests")
    /\ reporter \in Residents
    /\ maintenance_requests' =
          IF \E u \in units : u.owner = reporter
          THEN maintenance_requests \cup
                  {MaintRow(NewId(maintenance_requests, Cardinality(maintenance_requests) + 1),
                            reporter, title, status)}
          ELSE maintenance_requests
    /\ run' = [run EXCEPT !.j = run.j + 1,
                          !.pc = IF run.j + 1 < NumRequests THEN "requests" ELSE "commit"]
    /\ UNCHANGED <<billing, comments, attachments, reservations, notifications,
                   auth, users, expense_types, request, response>>

\* handle returns and the transaction commits
SeedCommit ==
    /\ SeedAt("commit")
    /\ run' = [pc |-> "idle", outcome |-> "done", clean |-> run.clean]
    /\ UNCHANGED <<billing, owned, auth, users, expense_types, request, response>>

\* an empty database
InitSeed ==
    /\ fees = {}
    /\ payments = {}
    /\ units = {}
    /\ maintenance_requests = {}
    /\ comments = {}
    /\ attachments = {}
    /\ reservations = {}
    /\ notifications = {}
    /\ activity_log = <<>>
    /\ tokens = <<>>
    /\ users = {}
    /\ expense_types = {}
    /\ run = NoRun
    /\ request = NoRequest
    /\ response = NoResponse

SeedDraw == \E t \in Towers, n \in Numbers, l \in Letters : SeedDrawCode(t, n, l)
\* a step of a run, its random draws taken from the given sets
SeedStepWith(paid_draws, reporters) ==
    \/ SeedClean
    \/ SeedGlobals
    \/ \E username \in UsernameDraws(users) : SeedCreateUser(username)
    \/ SeedDraw
    \/ SeedCreateUnit
    \/ \E draw \in paid_draws : SeedFees(draw)
    \/ \E reporter \in reporters, title \in SeedTitles,
          status \in SeedStatuses : SeedRequest(reporter, title, status)
    \/ SeedCommit

SeedStep == SeedStepWith(PaidDraws, SeedUsernames)

NextSeed ==
    \/ \E clean \in BOOLEAN : SeedStart(clean)
    \/ SeedStep

SpecSeed == InitSeed /\ [][NextSeed]_vars

\* C11: when a step of handle raises, every table is afterwards as it
\* was when the command started, also when --clean had deleted rows before.
C11_RaiseLeavesDatabaseAsBefore ==
    [][(run.pc # "idle" /\ run'.pc = "idle" /\ run'.outcome = "raised") =>
        Database' = run.before
    ]_vars

\* a run with --clean has deleted the rows of the run before it and created
\* the first family, and the second family's username is the first's
C11_WitnessRaising ==
    /\ run.pc = "family" /\ run.clean /\ run.i = 1
    /\ run.before.units # {} /\ run.before.fees # {}
    /\ run.before.maintenance_requests # {}
    /\ Cardinality(units) = 1 /\ fees = {}

\* ... and the tables are back as the run before it left them
C11_Witness ==
    /\ run.pc = "idle" /\ run.outcome = "raised" /\ run.clean
    /\ Cardinality(units) = NumFamilies
    /\ Cardinality(fees) = NumFamilies * Cardinality(expense_types) * Cardinality(Months)
    /\ maintenance_requests # {}

\* The command runs on once started, and every code is drawn with fair
\* probability: a draw that could be made again and again is made.
\* The runs whose fees are all drawn paid and whose requests are the first
\* resident's: what the loop over the codes does is the same in the others.
SeedStepLoop == SeedStepWith({"all"}, {SeedUsernameList[1]})

NextSeedFair ==
    \/ \E clean \in BOOLEAN : SeedStart(clean)
    \/ SeedStepLoop

FairSeed ==
    /\ WF_vars(SeedStepLoop)
    /\ \A t \in Towers, n \in Numbers, l \in Letters : SF_vars(SeedDrawCode(t, n, l))

SpecSeedFair == InitSeed /\ [][NextSeedFair]_vars /\ FairSeed

UniqueCodes == \A a, b \in units : a.code = b.code => a = b

\* C12: every run of populate_db that starts comes to its end, from every
\* state runs with and without --clean lead to, and no two Units ever share
\* a code.
C12_Original ==
    /\ (run.pc # "idle") ~> (run.pc = "idle")
    /\ []UniqueCodes

\* no two Units share a code, in any state of any run
C12_UniqueCodes == UniqueCodes

\* the loop ends whenever a code is left that no Unit has
C12_LoopEndsWhileACodeIsFree ==
    (run.pc = "draw" /\ \E c \in SeedCodes : ~HasCode(c)) ~> (run.pc # "draw")

\* a run that does not end is in the loop with no code left
C12_RunsEndUnlessNoCodeIsLeft ==
    (run.pc # "idle") ~>
        (run.pc = "idle" \/ (run.pc = "draw" /\ \A c \in SeedCodes : HasCode(c)))

\* every code has a Unit and the loop is drawing
C12_LoopWithNoCodeLeft ==
    /\ run.pc = "draw"
    /\ \A c \in SeedCodes : HasCode(c)
    /\ ~run.clean

SeedTriplesOf(db) ==
    {[unit |-> u.code, etype |-> et, period |-> SeedPeriod(m)] :
        u \in db.units, et \in db.expense_types, m \in Months}

\* the fee f as a run without --clean may leave it: itself, or itself PAID
KeptFee(f, tbl) ==
    \E g \in tbl : g \in {f, [f EXCEPT !.status = "PAID"]}

\* C13: no (unit, expense type, period) of the three seeded periods ever has
\* two fees; between runs each existing unit and expense type has exactly
\* one fee in each of the three periods; and a run without --clean changes
\* no fee but by making it PAID, so that a fee PAID when the run started is
\* PAID when it commits.
C13_OneFeePerTriple ==
    [][/\ Cardinality({<<f.unit, f.etype, f.period>> : f \in fees'}) = Cardinality(fees')
       /\ run'.pc = "idle" =>
             \A t \in SeedTriplesOf(Database') : Cardinality(FeesOf(fees', t)) = 1
       /\ (run.pc # "idle" /\ ~run.clean) =>
             /\ \A f \in fees : KeptFee(f, fees')
             /\ run.pc = "commit" => \A f \in run.before.fees : KeptFee(f, fees')
    ]_vars

\* a second run without --clean is about to commit: it has found fees PAID
\* and fees ISSUED, left them so, and created the new units' fees
C13_Witness ==
    /\ run.pc = "commit" /\ ~run.clean
    /\ \E f \in run.before.fees : f.status = "PAID" /\ f \in fees
    /\ \E f \in run.before.fees : f.status = "ISSUED" /\ f \in fees
    /\ Cardinality(run.before.fees) = NumFamilies * 2 * Cardinality(Months)
    /\ Cardinality(fees) = 2 * Cardinality(run.before.fees)

\* ... or has made PAID a fee it found ISSUED
C13_WitnessPaidByLaterRun ==
    /\ run.pc = "commit" /\ ~run.clean
    /\ \E f \in run.before.fees :
          f.status = "ISSUED" /\ f \notin fees /\ [f EXCEPT !.status = "PAID"] \in fees

(***************************************************************************)
(* C14: the finance report's groups.                                       *)
(***************************************************************************)
RECURSIVE SeqSum(_, _)
SeqSum(s, field) ==
    IF s = <<>> THEN 0 ELSE Head(s)[field] + SeqSum(Tail(s), field)

\* C14: in every finance report the by_type entries and the by_period
\* entries each add up to the overall issued and paid sums, the by_type
\* counts add up to the number of matching fees, and every entry has
\* 0 <= paid <= issued (the amounts being non-negative).
C14_GroupsPartitionOverall ==
    IsReport =>
        /\ SeqSum(response.by_type, "issued") = response.overall.issued
        /\ SeqSum(response.by_period, "issued") = response.overall.issued
        /\ SeqSum(response.by_type, "paid") = response.overall.paid
        /\ SeqSum(response.by_period, "paid") = response.overall.paid
        /\ SeqSum(response.by_type, "count") = Cardinality({f \in fees : Matches(f)})
        /\ \A e \in SeqRange(response.by_type) \cup SeqRange(response.by_period) :
              0 <= e.paid /\ e.paid <= e.issued

\* a report of two fees of different types and periods, one of them paid,
\* under a filter that leaves both in
C14_Witness ==
    /\ IsReport
    /\ request.from.kind = "value"
    /\ Len(response.by_type) = 2
    /\ Len(response.by_period) = 2
    /\ SeqSum(response.by_type, "count") = 2
    /\ response.overall.paid > 0
    /\ response.overall.paid < response.overall.issued

====
